---- MODULE Spec2Model ----
(***************************************************************************)
(* Dependency Monkey (thoth/adviser/dependency_monkey.py): one call of     *)
(* dependency_monkey() from its argument checks to its return or raise,    *)
(* with the generation loop of _do_dependency_monkey(), the hash filling   *)
(* of _fill_package_digests() and the three output functions.              *)
(*                                                                         *)
(* Python values: an optional argument is <<>> (None) or <<v>>; a string   *)
(* that the code inspects (the destination) is a sequence of characters.   *)
(* The module imports random, os, functools.partial, typing, logging and   *)
(* three names of thoth.adviser.python (lines 21-29): json, sys and        *)
(* amun_inspect are not bound, so lines 38, 62 and 145 raise NameError.    *)
(***************************************************************************)
EXTENDS Integers, Sequences, FiniteSets, TLC

VARIABLES decision, seed, count, output, context, dry_run,
          pc, ret, rng, rng2, walk, walk2,
          generated_project, fillIdx, hashes, passHashes, queries,
          computed, result, output_function,
          dirs, files, created,
          pulled, pulled2, sinkCalls, graphBuilt,
          platform, pipeline, configuration, states,
          lastOp, lastCall, unitRet,
          bootRuns, preRuns, queriesMade, firstScore

argvars == <<decision, seed, count, output, context, dry_run>>
rngvars == <<rng, rng2, walk, walk2>>
fillvars == <<generated_project, fillIdx, hashes, passHashes, queries>>
fsvars == <<dirs, files, created>>
\* the pipeline units (boots, steps) and the context they work on
unitvars == <<platform, pipeline, configuration, states, lastOp, lastCall,
              unitRet, bootRuns, preRuns, queriesMade, firstScore>>
\* everything dependency_monkey works on, the process-wide generator aside
monkeyvars == <<decision, seed, count, output, context, dry_run, pc, ret,
                rng2, walk, walk2, generated_project, fillIdx, hashes,
                passHashes, queries, computed, result, output_function,
                dirs, files, created, pulled, pulled2, sinkCalls, graphBuilt>>
vars == <<decision, seed, count, output, context, dry_run,
          pc, ret, rng, rng2, walk, walk2,
          generated_project, fillIdx, hashes, passHashes, queries,
          computed, result, output_function,
          dirs, files, created,
          pulled, pulled2, sinkCalls, graphBuilt,
          platform, pipeline, configuration, states,
          lastOp, lastCall, unitRet,
          bootRuns, preRuns, queriesMade, firstScore>>

----------------------------------------------------------------------------
(* Bounds of the model *)

\* candidate stacks of the dependency graph's product space
MaxWalk == 3
\* largest count bound tried
MaxCount == 2

None == <<>>
Some(v) == <<v>>

----------------------------------------------------------------------------
(* Strings the code inspects *)

HttpPrefix == <<"h", "t", "t", "p", ":", "/", "/">>
HttpsPrefix == <<"h", "t", "t", "p", "s", ":", "/", "/">>
StdoutDest == <<"-">>
HttpDest == HttpPrefix \o <<"a">>
HttpsDest == HttpsPrefix \o <<"a">>
DirDest == <<"o", "u", "t">>
\* one slash short of a URL: a directory path
SlashDest == <<"h", "t", "t", "p", ":", "/", "a">>

Destinations == {HttpDest, HttpsDest, StdoutDest, DirDest, SlashDest}
DecisionNames == {"all", "sampling", "bogus"}
Seeds == {None, Some(0), Some(6)}
Counts == {None} \cup {Some(n) : n \in -1..MaxCount}
\* no context, the empty string, a JSON document, text that is no JSON
Contexts == {None, Some(""), Some("{}"), Some("x")}

\* str.startswith
StartsWith(s, prefix) ==
    /\ Len(s) >= Len(prefix)
    /\ SubSeq(s, 1, Len(prefix)) = prefix

\* truth value of an Optional[str]: None and "" are false
Truthy(c) == c # None /\ c[1] # ""

----------------------------------------------------------------------------
(* thoth.adviser.python: registry, generator, walk *)

DECISISON_FUNCTIONS == {"all", "sampling"}

RngMod == 8
RngMul == 5
RngInc == 3
SamplingThreshold == 4
\* states the system entropy can seed the generator with
EntropyStates == {2, 6}
\* states earlier draws can have left the process-wide generator in
PriorStates == {1, 5}

\* one draw of the process-wide generator
Draw(g) == (RngMul * g + RngInc) % RngMod

\* random.seed(seed): from the seed, or from system entropy e for None
SeedRng(s, e) == IF s = None THEN e ELSE s[1] % RngMod

\* decision_function(partial_assignment): continue or abandon, and the
\* generator state it leaves
Decide(dec, g) ==
    IF dec = "all" THEN [go |-> TRUE, rng |-> g]
    ELSE [go |-> Draw(g) >= SamplingThreshold, rng |-> Draw(g)]

\* next() on the generator of walk(): the next project, or 0 when exhausted
RECURSIVE WalkNext(_, _, _)
WalkNext(pos, g, dec) ==
    IF pos >= MaxWalk THEN [pos |-> pos, rng |-> g, project |-> 0]
    ELSE LET d == Decide(dec, g)
         IN  IF d.go THEN [pos |-> pos + 1, rng |-> d.rng, project |-> pos + 1]
             ELSE WalkNext(pos + 1, d.rng, dec)

\* the projects the walk would still yield
RECURSIVE WalkRest(_, _, _)
WalkRest(pos, g, dec) ==
    LET n == WalkNext(pos, g, dec)
    IN  IF n.project = 0 THEN <<>>
        ELSE <<n.project>> \o WalkRest(n.pos, n.rng, dec)

\* package versions: one per candidate stack and one development package
\* shared by every stack
SharedDev == 0
Packages == 0..MaxWalk
Project(k) == [packages |-> <<k>>, dev_packages |-> <<SharedDev>>]

----------------------------------------------------------------------------
(* _fill_package_digests *)

\* chain(pipfile_lock.packages, pipfile_lock.dev_packages)
Chain(k) == Project(k).packages \o Project(k).dev_packages

\* answers of the package index: a list of {'sha256': digest} entries
IndexAnswers == {<<>>, <<"aa", "bb">>}

\* 'sha256:' + entry['sha256']
Sha256Entry(d) == <<"sha256:", d>>

\* for entry in scanned_hashes: package_version.hashes.append(...)
AppendScanned(h, scanned) ==
    h \o [i \in 1..Len(scanned) |-> Sha256Entry(scanned[i])]

\* "if package_version.hashes: continue" negated: the index is asked
NeedsLookupAlways(h) == TRUE
NeedsLookup(h) == h = <<>>

----------------------------------------------------------------------------
(* output functions *)

FormatWidth == 5

DigitChar(d) == <<"0", "1", "2", "3", "4", "5", "6", "7", "8", "9">>[d + 1]

RECURSIVE Decimal(_)
Decimal(n) == IF n < 10 THEN <<DigitChar(n)>>
              ELSE Decimal(n \div 10) \o <<DigitChar(n % 10)>>

RECURSIVE ZeroPad(_, _)
ZeroPad(s, w) == IF Len(s) >= w THEN s ELSE ZeroPad(<<"0">> \o s, w)

\* f'{count:05d}'
Format05dZeroBased(n) == ZeroPad(Decimal(n - 1), FormatWidth)
Format05d(n) == ZeroPad(Decimal(n), FormatWidth)

\* os.path.join: a path is the sequence of its components
StackPath(out, n) == <<out, Format05d(n)>>

\* _dm_amun_inspect_wrapper: amun_inspect is not bound, the NameError is
\* caught and the wrapper returns None
AmunEntryOnFailure == Some("error")
AmunEntry == None

\* output.startswith(('https://', 'http://'))
IsAmunDestHttpsOnly(o) == StartsWith(o, HttpsPrefix)
IsAmunDest(o) == StartsWith(o, HttpsPrefix) \/ StartsWith(o, HttpPrefix)
IsStdoutDest(o) == ~IsAmunDest(o) /\ o = StdoutDest
\* the "elif output == '-'" branch left out
IsDirectoryDestNotUrl(o) == ~IsAmunDest(o)
IsDirectoryDest(o) == ~IsAmunDest(o) /\ o # StdoutDest

\* count is not None and (count <= 0)
CountInvalidNegative(c) == c # None /\ c[1] < 0
CountInvalid(c) == c # None /\ c[1] <= 0

----------------------------------------------------------------------------
(* Pipeline units: PlatformBoot (thoth/adviser/boots, known through       *)
(* tests/boots/test_platform.py) and SetScoreStep (steps/_debug/           *)
(* set_score.py)                                                           *)

\* calls of PlatformBoot.run, of SetScoreStep.pre_run and of
\* PlatformBoot.should_include followed in one behaviour
MaxUnitCalls == 2

\* what a unit method returned: None, an empty configuration map, or the
\* tuple (score, None)
RetNone == [kind |-> "None", score |-> None]
RetMap == [kind |-> "{}", score |-> None]
RetScored(s) == [kind |-> "tuple", score |-> s]

\* context.project.runtime_environment.platform
Platforms == {None, Some("linux-i586")}
DefaultPlatform == Some("linux-x86_64")

\* PlatformBoot.run: the platform it leaves
BootPlatformAlways(p) == DefaultPlatform
BootPlatform(p) == IF p = None THEN DefaultPlatform ELSE p

\* builder_context.is_included(PlatformBoot)
IsIncluded(pl, unit) == \E i \in 1..Len(pl) : pl[i] = unit

\* PlatformBoot.should_include
PlatformBootShouldIncludeAlways(pl) == RetMap
PlatformBootShouldInclude(pl) ==
    IF IsIncluded(pl, "PlatformBoot") THEN RetNone ELSE RetMap

\* SetScoreStep.should_include, lines 68-71
SetScoreShouldInclude(pl) == RetNone

\* SetScoreStep.CONFIGURATION_DEFAULT, lines 61-66
CONFIGURATION_DEFAULT ==
    [package_name |-> None, package_version |-> None, index_url |-> None,
     score |-> None]

\* configurations that pass CONFIGURATION_SCHEMA (lines 53-60); a score is
\* a whole number standing for a float
Configurations ==
    [package_name : {Some("flask")},
     package_version : {None, Some("1.0")},
     index_url : {None, Some("pypi")},
     score : {None, Some(0), Some(3)}]

\* the package versions run() is called with
Candidates ==
    [name : {"flask", "tensorflow"},
     locked_version : {"1.0", "2.0"},
     index_url : {"pypi", "aicoe"}]

StateIds == {1, 2}
NoCall == [state |-> 0,
           candidate |-> [name |-> "", locked_version |-> "", index_url |-> ""]]

\* random.uniform(-1.0, 1.0) on the process-wide generator in state g
Uniform(g) == Draw(g) - (RngMod \div 2)

\* if self.configuration["score"] is None (line 75)
NeedsScoreOrZero(sc) == sc = None \/ sc[1] = 0
NeedsScore(sc) == sc = None

\* the condition of lines 84-89
RejectsOtherName(cfg, c) ==
    \/ (cfg.package_name # None /\ c.name # cfg.package_name[1])
    \/ (cfg.package_version # None /\ c.locked_version # cfg.package_version[1])
    \/ (cfg.index_url # None /\ c.index_url # cfg.index_url[1])
Rejects(cfg, c) ==
    \/ (cfg.package_version # None /\ c.locked_version # cfg.package_version[1])
    \/ (cfg.index_url # None /\ c.index_url # cfg.index_url[1])

\* lines 90-92
RunResult(cfg, c) == IF Rejects(cfg, c) THEN RetNone ELSE RetScored(cfg.score)

----------------------------------------------------------------------------
(* Initial state: before the call *)

NoRet == [kind |-> "none", code |-> 0]

InitMonkey ==
    /\ decision = "all" /\ seed = None /\ count = None
    /\ output = StdoutDest /\ context = None /\ dry_run = FALSE
    /\ pc = "idle" /\ ret = NoRet
    /\ rng \in PriorStates /\ rng2 \in PriorStates
    /\ walk = 0 /\ walk2 = 0
    /\ generated_project = 0 /\ fillIdx = 0
    /\ hashes = [p \in Packages |-> <<>>]
    /\ passHashes = [p \in Packages |-> <<>>]
    /\ queries = <<>>
    /\ computed = 0
    /\ result = [output |-> <<>>, computed |-> 0]
    /\ output_function = "unset"
    /\ dirs \in {{}, {<<DirDest>>}}
    /\ files = {} /\ created = {}
    /\ pulled = <<>> /\ pulled2 = <<>> /\ sinkCalls = <<>>
    /\ graphBuilt = FALSE

\* no unit has been called
InitUnitsIdle ==
    /\ platform = None
    /\ pipeline = <<>>
    /\ configuration = CONFIGURATION_DEFAULT
    /\ states = [s \in StateIds |-> 0]
    /\ lastOp = "none" /\ lastCall = NoCall /\ unitRet = RetNone
    /\ bootRuns = 0 /\ preRuns = 0 /\ queriesMade = 0
    /\ firstScore = None

Init == InitMonkey /\ InitUnitsIdle

\* a context, a pipeline under construction and a configured SetScoreStep,
\* with dependency_monkey not called
InitUnits ==
    /\ InitMonkey
    /\ dirs = {} /\ rng2 = rng
    /\ platform \in Platforms
    /\ pipeline \in {<<>>, <<"PlatformBoot">>}
    /\ configuration \in Configurations \cup {CONFIGURATION_DEFAULT}
    /\ states = [s \in StateIds |-> 0]
    /\ lastOp = "none" /\ lastCall = NoCall /\ unitRet = RetNone
    /\ bootRuns = 0 /\ preRuns = 0 /\ queriesMade = 0
    /\ firstScore = None

----------------------------------------------------------------------------
(* dependency_monkey: argument checks and choice of the output function *)

Args(d, s, c, o, x, dr) ==
    /\ decision' = d /\ seed' = s /\ count' = c
    /\ output' = o /\ context' = x /\ dry_run' = dr

\* line 135 left out: the generators stay as earlier draws left them
RandomSeedSkipped(s) == UNCHANGED <<rng, rng2, walk, walk2>>

\* random.seed(seed), line 135, on the process-wide generator; the twin run
\* (same arguments, another process history) seeds its own
RandomSeed(s) ==
    \E e1 \in EntropyStates, e2 \in EntropyStates :
        /\ rng' = SeedRng(s, e1)
        /\ rng2' = SeedRng(s, e2)
        /\ UNCHANGED <<walk, walk2>>

\* an early return or raise of dependency_monkey
EndCall(kind, code) ==
    /\ pc' = "done"
    /\ ret' = [kind |-> kind, code |-> code]
    /\ UNCHANGED <<fillvars, computed, result, output_function, fsvars,
                   pulled, pulled2, sinkCalls, graphBuilt>>

\* lines 131-132
CallUnknownDecision ==
    /\ pc = "idle"
    /\ \E d \in DecisionNames, s \in Seeds, c \in Counts, o \in Destinations,
          x \in Contexts, dr \in BOOLEAN :
        /\ d \notin DECISISON_FUNCTIONS
        /\ Args(d, s, c, o, x, dr)
        /\ UNCHANGED rngvars
        /\ EndCall("ValueError", 0)
    /\ UNCHANGED unitvars

\* lines 137-139
CallBadCount ==
    /\ pc = "idle"
    /\ \E d \in DecisionNames, s \in Seeds, c \in Counts, o \in Destinations,
          x \in Contexts, dr \in BOOLEAN :
        /\ d \in DECISISON_FUNCTIONS
        /\ CountInvalid(c)
        /\ Args(d, s, c, o, x, dr)
        /\ RandomSeed(s)
        /\ EndCall("code", 3)
    /\ UNCHANGED unitvars

\* lines 141-148: json is not bound, json.loads raises NameError inside the
\* try, whatever the context holds
CallAmunContext ==
    /\ pc = "idle"
    /\ \E d \in DecisionNames, s \in Seeds, c \in Counts, o \in Destinations,
          x \in Contexts, dr \in BOOLEAN :
        /\ d \in DECISISON_FUNCTIONS
        /\ ~CountInvalid(c)
        /\ IsAmunDest(o)
        /\ Truthy(x)
        /\ Args(d, s, c, o, x, dr)
        /\ RandomSeed(s)
        /\ EndCall("code", 1)
    /\ UNCHANGED unitvars

\* lines 156-159
CallDirectoryContext ==
    /\ pc = "idle"
    /\ \E d \in DecisionNames, s \in Seeds, c \in Counts, o \in Destinations,
          x \in Contexts, dr \in BOOLEAN :
        /\ d \in DECISISON_FUNCTIONS
        /\ ~CountInvalid(c)
        /\ IsDirectoryDest(o)
        /\ Truthy(x)
        /\ Args(d, s, c, o, x, dr)
        /\ RandomSeed(s)
        /\ EndCall("code", 2)
    /\ UNCHANGED unitvars

\* lines 94-99: the entry of _do_dependency_monkey
EnterLoop(fn) ==
    /\ pc' = "loop"
    /\ output_function' = fn
    /\ computed' = 0
    /\ result' = [output |-> <<>>, computed |-> 0]
    /\ graphBuilt' = TRUE
    /\ UNCHANGED <<ret, fillvars, files, pulled, pulled2, sinkCalls>>

\* lines 141, 149-153, 166
CallAmun ==
    /\ pc = "idle"
    /\ \E d \in DecisionNames, s \in Seeds, c \in Counts, o \in Destinations,
          x \in Contexts, dr \in BOOLEAN :
        /\ d \in DECISISON_FUNCTIONS
        /\ ~CountInvalid(c)
        /\ IsAmunDest(o)
        /\ ~Truthy(x)
        /\ Args(d, s, c, o, x, dr)
        /\ RandomSeed(s)
        /\ UNCHANGED <<dirs, created>>
        /\ EnterLoop("amun")
    /\ UNCHANGED unitvars

\* lines 154-155, 166
CallStdout ==
    /\ pc = "idle"
    /\ \E d \in DecisionNames, s \in Seeds, c \in Counts, o \in Destinations,
          x \in Contexts, dr \in BOOLEAN :
        /\ d \in DECISISON_FUNCTIONS
        /\ ~CountInvalid(c)
        /\ IsStdoutDest(o)
        /\ Args(d, s, c, o, x, dr)
        /\ RandomSeed(s)
        /\ UNCHANGED <<dirs, created>>
        /\ EnterLoop("stdout")
    /\ UNCHANGED unitvars

\* lines 156-157, 161-166
CallDirectory ==
    /\ pc = "idle"
    /\ \E d \in DecisionNames, s \in Seeds, c \in Counts, o \in Destinations,
          x \in Contexts, dr \in BOOLEAN :
        /\ d \in DECISISON_FUNCTIONS
        /\ ~CountInvalid(c)
        /\ IsDirectoryDest(o)
        /\ ~Truthy(x)
        /\ Args(d, s, c, o, x, dr)
        /\ RandomSeed(s)
        /\ dirs' = dirs \cup {<<o>>}
        /\ created' = created \cup ({<<o>>} \ dirs)
        /\ EnterLoop("directory")
    /\ UNCHANGED unitvars

----------------------------------------------------------------------------
(* _do_dependency_monkey: the generation loop *)

\* lines 115-116
ReturnResult ==
    /\ pc' = "done"
    /\ result' = [result EXCEPT !.computed = computed]
    /\ ret' = [kind |-> "result", code |-> 0]

\* an exception leaves _do_dependency_monkey and dependency_monkey
Raise(kind) ==
    /\ pc' = "done"
    /\ ret' = [kind |-> kind, code |-> 0]
    /\ UNCHANGED result

\* the twin run's walk answers the same request
TwinNext ==
    LET n2 == WalkNext(walk2, rng2, decision)
    IN  /\ walk2' = n2.pos
        /\ rng2' = n2.rng
        /\ pulled2' = IF n2.project = 0 THEN pulled2
                      ELSE Append(pulled2, n2.project)

\* lines 101-102 and the entry of _fill_package_digests (line 74)
Pull ==
    /\ pc = "loop"
    /\ LET n == WalkNext(walk, rng, decision)
       IN  /\ n.project # 0
           /\ walk' = n.pos
           /\ rng' = n.rng
           /\ generated_project' = n.project
           /\ pulled' = Append(pulled, n.project)
    /\ TwinNext
    /\ computed' = computed + 1
    /\ fillIdx' = 1
    /\ passHashes' = hashes
    /\ queries' = <<>>
    /\ pc' = "fill"
    /\ UNCHANGED <<argvars, ret, hashes, result, output_function, fsvars,
                   sinkCalls, graphBuilt>>
    /\ UNCHANGED unitvars

\* line 101 with the walk exhausted, then lines 115-116
WalkExhausted ==
    /\ pc = "loop"
    /\ LET n == WalkNext(walk, rng, decision)
       IN  /\ n.project = 0
           /\ walk' = n.pos
           /\ rng' = n.rng
    /\ TwinNext
    /\ ReturnResult
    /\ UNCHANGED <<argvars, fillvars, computed, output_function, fsvars,
                   pulled, sinkCalls, graphBuilt>>
    /\ UNCHANGED unitvars

\* lines 74-78: the package has hashes
FillSkip ==
    /\ pc = "fill"
    /\ fillIdx <= Len(Chain(generated_project))
    /\ ~NeedsLookup(hashes[Chain(generated_project)[fillIdx]])
    /\ fillIdx' = fillIdx + 1
    /\ UNCHANGED <<argvars, pc, ret, rngvars, generated_project, hashes,
                   passHashes, queries, computed, result, output_function,
                   fsvars, pulled, pulled2, sinkCalls, graphBuilt>>
    /\ UNCHANGED unitvars

\* lines 74-86: the index answers
FillLookup ==
    /\ pc = "fill"
    /\ fillIdx <= Len(Chain(generated_project))
    /\ LET p == Chain(generated_project)[fillIdx]
       IN  /\ NeedsLookup(hashes[p])
           /\ queries' = Append(queries, p)
           /\ \E scanned \in IndexAnswers :
                hashes' = [hashes EXCEPT ![p] = AppendScanned(@, scanned)]
    /\ fillIdx' = fillIdx + 1
    /\ UNCHANGED <<argvars, pc, ret, rngvars, generated_project, passHashes,
                   computed, result, output_function, fsvars, pulled,
                   pulled2, sinkCalls, graphBuilt>>
    /\ UNCHANGED unitvars

\* lines 80-83: get_package_hashes raises; nothing catches it
FillLookupRaises ==
    /\ pc = "fill"
    /\ fillIdx <= Len(Chain(generated_project))
    /\ LET p == Chain(generated_project)[fillIdx]
       IN  /\ NeedsLookup(hashes[p])
           /\ queries' = Append(queries, p)
    /\ Raise("LookupError")
    /\ UNCHANGED <<argvars, rngvars, generated_project, fillIdx, hashes,
                   passHashes, computed, output_function, fsvars, pulled,
                   pulled2, sinkCalls, graphBuilt>>
    /\ UNCHANGED unitvars

\* the bound looked at before the dispatch: line 112 ahead of line 107
FillDoneSkipsSink ==
    /\ pc = "fill"
    /\ fillIdx > Len(Chain(generated_project))
    /\ pc' = "check"
    /\ UNCHANGED <<argvars, ret, rngvars, fillvars, computed, result,
                   output_function, fsvars, pulled, pulled2, sinkCalls,
                   graphBuilt>>
    /\ UNCHANGED unitvars

\* line 88, line 105 and the test of line 107
FillDone ==
    /\ pc = "fill"
    /\ fillIdx > Len(Chain(generated_project))
    /\ pc' = IF dry_run THEN "check" ELSE "sink"
    /\ UNCHANGED <<argvars, ret, rngvars, fillvars, computed, result,
                   output_function, fsvars, pulled, pulled2, sinkCalls,
                   graphBuilt>>
    /\ UNCHANGED unitvars

SinkCall(fn) == [sink |-> fn, project |-> generated_project, count |-> computed]

\* line 110 without the test of line 109
RecordedAlways(entry) == [result EXCEPT !.output = Append(@, entry)]

\* append to result['output'] when the entry is true (lines 109-110)
Recorded(entry) ==
    IF entry = None THEN result
    ELSE [result EXCEPT !.output = Append(@, entry[1])]

\* lines 108-110 with _dm_amun_inspect_wrapper (lines 36-45)
SinkAmun ==
    /\ pc = "sink"
    /\ output_function = "amun"
    /\ sinkCalls' = Append(sinkCalls, SinkCall("amun"))
    /\ result' = Recorded(AmunEntry)
    /\ pc' = "check"
    /\ UNCHANGED <<argvars, ret, rngvars, fillvars, computed,
                   output_function, fsvars, pulled, pulled2, graphBuilt>>
    /\ UNCHANGED unitvars

\* line 108 with _dm_stdout_output (line 62): json and sys are not bound
SinkStdout ==
    /\ pc = "sink"
    /\ output_function = "stdout"
    /\ sinkCalls' = Append(sinkCalls, SinkCall("stdout"))
    /\ Raise("NameError")
    /\ UNCHANGED <<argvars, rngvars, fillvars, computed, output_function,
                   fsvars, pulled, pulled2, graphBuilt>>
    /\ UNCHANGED unitvars

\* lines 108-110 with _dm_amun_directory_output (lines 50-57)
SinkDirectory ==
    /\ pc = "sink"
    /\ output_function = "directory"
    /\ sinkCalls' = Append(sinkCalls, SinkCall("directory"))
    /\ LET path == StackPath(output, computed)
       IN  /\ dirs' = dirs \cup {path}
           /\ created' = created \cup ({path} \ dirs)
           /\ files' = files \cup
                {[dir |-> path, name |-> n, project |-> generated_project] :
                    n \in {"Pipfile", "Pipfile.lock"}}
           /\ result' = Recorded(Some(path))
    /\ pc' = "check"
    /\ UNCHANGED <<argvars, ret, rngvars, fillvars, computed,
                   output_function, pulled, pulled2, graphBuilt>>
    /\ UNCHANGED unitvars

\* count is not None and computed >= count
BoundReached == count # None /\ computed >= count[1]

\* lines 112-113, then lines 115-116
CheckBreak ==
    /\ pc = "check"
    /\ BoundReached
    /\ ReturnResult
    /\ UNCHANGED <<argvars, rngvars, fillvars, computed, output_function,
                   fsvars, pulled, pulled2, sinkCalls, graphBuilt>>
    /\ UNCHANGED unitvars

\* line 112 false: back to line 101
CheckContinue ==
    /\ pc = "check"
    /\ ~BoundReached
    /\ pc' = "loop"
    /\ UNCHANGED <<argvars, ret, rngvars, fillvars, computed, result,
                   output_function, fsvars, pulled, pulled2, sinkCalls,
                   graphBuilt>>
    /\ UNCHANGED unitvars

----------------------------------------------------------------------------
(* The state *)

RetKinds == {"none", "ValueError", "code", "NameError", "LookupError", "result"}

TypeOK ==
    \* the arguments of the call (lines 119-120)
    /\ decision \in DecisionNames /\ seed \in Seeds /\ count \in Counts
    /\ output \in Destinations /\ context \in Contexts /\ dry_run \in BOOLEAN
    \* where the call stands, and how it ended
    /\ pc \in {"idle", "loop", "fill", "sink", "check", "done"}
    /\ ret.kind \in RetKinds /\ ret.code \in 0..3
    \* the process-wide generator of random and the generator of walk(), of
    \* this run and of its twin
    /\ rng \in 0..(RngMod - 1) /\ rng2 \in 0..(RngMod - 1)
    /\ walk \in 0..MaxWalk /\ walk2 \in 0..MaxWalk
    \* _fill_package_digests: the project, the position in chain(...), the
    \* hashes of every package version now and when the pass started, the
    \* packages the index was asked for in this pass
    /\ generated_project \in 0..MaxWalk
    /\ fillIdx \in 0..(Len(Chain(1)) + 1)
    /\ DOMAIN hashes = Packages /\ DOMAIN passHashes = Packages
    /\ \A i \in 1..Len(queries) : queries[i] \in Packages
    \* _do_dependency_monkey: computed, result, output_function
    /\ computed \in 0..MaxWalk
    /\ result.computed \in 0..MaxWalk /\ Len(result.output) <= MaxWalk
    /\ output_function \in {"unset", "amun", "stdout", "directory"}
    \* the filesystem: directories, files, directories this call created
    /\ created \subseteq dirs
    /\ \A f \in files : f.dir \in dirs
    \* history: projects pulled (this run, twin run), sink calls, graph built
    /\ Len(pulled) <= MaxWalk /\ Len(pulled2) <= MaxWalk
    /\ Len(sinkCalls) <= Len(pulled)
    /\ graphBuilt \in BOOLEAN

Next ==
    \/ CallUnknownDecision
    \/ CallBadCount
    \/ CallAmunContext
    \/ CallDirectoryContext
    \/ CallAmun
    \/ CallStdout
    \/ CallDirectory
    \/ Pull
    \/ WalkExhausted
    \/ FillSkip
    \/ FillLookup
    \/ FillLookupRaises
    \/ FillDone
    \/ SinkAmun
    \/ SinkStdout
    \/ SinkDirectory
    \/ CheckBreak
    \/ CheckContinue

Spec == Init /\ [][Next]_vars

----------------------------------------------------------------------------
(* The unit methods *)

\* PlatformBoot.run
BootRun ==
    /\ bootRuns < MaxUnitCalls
    /\ bootRuns' = bootRuns + 1
    /\ platform' = BootPlatform(platform)
    /\ unitRet' = RetNone
    /\ lastOp' = "PlatformBoot.run"
    /\ UNCHANGED <<pipeline, configuration, states, lastCall, preRuns,
                   queriesMade, firstScore, rng, monkeyvars>>

\* the builder asks PlatformBoot.should_include and adds the unit when a
\* configuration map comes back
QueryPlatformBoot ==
    /\ queriesMade < MaxUnitCalls
    /\ queriesMade' = queriesMade + 1
    /\ unitRet' = PlatformBootShouldInclude(pipeline)
    /\ pipeline' = IF PlatformBootShouldInclude(pipeline).kind = "{}"
                   THEN Append(pipeline, "PlatformBoot") ELSE pipeline
    /\ lastOp' = "PlatformBoot.should_include"
    /\ UNCHANGED <<platform, configuration, states, lastCall, bootRuns,
                   preRuns, firstScore, rng, monkeyvars>>

\* the builder asks SetScoreStep.should_include (lines 68-71)
QuerySetScore ==
    /\ lastOp # "SetScoreStep.should_include"
    /\ unitRet' = SetScoreShouldInclude(pipeline)
    /\ pipeline' = IF SetScoreShouldInclude(pipeline).kind = "{}"
                   THEN Append(pipeline, "SetScoreStep") ELSE pipeline
    /\ lastOp' = "SetScoreStep.should_include"
    /\ UNCHANGED <<platform, configuration, states, lastCall, bootRuns,
                   preRuns, queriesMade, firstScore, rng, monkeyvars>>

\* SetScoreStep.pre_run (lines 73-78)
PreRun ==
    /\ preRuns < MaxUnitCalls
    /\ preRuns' = preRuns + 1
    /\ IF NeedsScore(configuration.score)
       THEN /\ configuration' = [configuration EXCEPT !.score = Some(Uniform(rng))]
            /\ rng' = Draw(rng)
       ELSE UNCHANGED <<configuration, rng>>
    /\ firstScore' = IF preRuns = 0 THEN configuration'.score ELSE firstScore
    /\ unitRet' = RetNone
    /\ lastOp' = "SetScoreStep.pre_run"
    /\ UNCHANGED <<platform, pipeline, states, lastCall, bootRuns,
                   queriesMade, monkeyvars>>

\* SetScoreStep.run (lines 80-92)
StepRun ==
    /\ \E st \in StateIds, c \in Candidates :
        /\ lastCall' = [state |-> st, candidate |-> c]
        /\ unitRet' = RunResult(configuration, c)
    /\ lastOp' = "SetScoreStep.run"
    /\ UNCHANGED <<platform, pipeline, configuration, states, bootRuns,
                   preRuns, queriesMade, firstScore, rng, monkeyvars>>

NextUnits ==
    \/ BootRun
    \/ QueryPlatformBoot
    \/ QuerySetScore
    \/ PreRun
    \/ StepRun

SpecUnits == InitUnits /\ [][NextUnits]_vars

TypeOKUnits ==
    /\ platform \in Platforms \cup {DefaultPlatform}
    /\ \A i \in 1..Len(pipeline) : pipeline[i] \in {"PlatformBoot", "SetScoreStep"}
    /\ configuration.package_name \in {None, Some("flask")}
    /\ configuration.package_version \in {None, Some("1.0")}
    /\ configuration.index_url \in {None, Some("pypi")}
    /\ configuration.score \in {None} \cup {Some(n) : n \in -RngMod..RngMod}
    /\ states = [s \in StateIds |-> 0]
    /\ lastOp \in {"none", "PlatformBoot.run", "PlatformBoot.should_include",
                   "SetScoreStep.should_include", "SetScoreStep.pre_run",
                   "SetScoreStep.run"}
    /\ lastCall.state \in StateIds \cup {0}
    /\ unitRet.kind \in {"None", "{}", "tuple"}
    /\ bootRuns \in 0..MaxUnitCalls /\ preRuns \in 0..MaxUnitCalls
    /\ queriesMade \in 0..MaxUnitCalls
    /\ firstScore \in {None} \cup {Some(n) : n \in -RngMod..RngMod}

----------------------------------------------------------------------------
(* The statements checked, written from the wording of each claim and not  *)
(* from the operators above.                                               *)

ClaimIsUrl(o) ==
    \/ (Len(o) >= 7 /\ SubSeq(o, 1, 7) = <<"h", "t", "t", "p", ":", "/", "/">>)
    \/ (Len(o) >= 8 /\ SubSeq(o, 1, 8) = <<"h", "t", "t", "p", "s", ":", "/", "/">>)
ClaimIsDirectory(o) == ~ClaimIsUrl(o) /\ o # <<"-">>
ClaimSink(o) == IF ClaimIsUrl(o) THEN "amun"
                ELSE IF o = <<"-">> THEN "stdout" ELSE "directory"
ClaimContextGiven == context # None /\ context[1] # ""
ClaimConfigError ==
    \/ decision \notin {"all", "sampling"}
    \/ (count # None /\ count[1] <= 0)
    \/ (ClaimIsDirectory(output) /\ ClaimContextGiven)

Min(a, b) == IF a <= b THEN a ELSE b
IsPrefix(s, t) == Len(s) <= Len(t) /\ SubSeq(t, 1, Len(s)) = s

\* M: what the walk of this run yields in all
WalkLength == Len(pulled) + Len(WalkRest(walk, rng, decision))
\* min(N, M), or M without a bound
ExpectedComputed == IF count = None THEN WalkLength ELSE Min(count[1], WalkLength)

Called == pc # "idle"
Ended == pc = "done"
Returned == pc = "done" /\ ret.kind = "result"

\* C1: a call with an unknown decision name, a count bound <= 0, or a
\* (non-empty) context together with a directory destination ends with an
\* error (a raise or a non-zero code) and has built no graph, pulled no
\* project, invoked no sink and created no directory.
C1_ConfigErrorAbortsBeforeTraversal ==
    (Called /\ ClaimConfigError) =>
        /\ Ended
        /\ \/ ret.kind = "ValueError"
           \/ (ret.kind = "code" /\ ret.code # 0)
        /\ ~graphBuilt
        /\ pulled = <<>>
        /\ sinkCalls = <<>>
        /\ created = {}
        /\ files = {}

C1_Witness ==
    /\ Ended
    /\ decision = "all" /\ count = Some(1)
    /\ output = DirDest /\ context = Some("{}")
    /\ ret = [kind |-> "code", code |-> 2]

\* C2: every generation run that has ended pulled exactly min(N, M) projects
\* and reported computed = min(N, M) (M when there is no bound), and never
\* pulled more than N.  Stated for the runs in which no hash lookup failed.
C2_ExactlyMinPulledAndReported ==
    /\ (graphBuilt /\ count # None) => Len(pulled) <= count[1]
    /\ (graphBuilt /\ Ended /\ ret.kind # "LookupError") =>
        /\ ret.kind = "result"
        /\ Len(pulled) = ExpectedComputed
        /\ result.computed = ExpectedComputed

C4_FailedSubmissionIsNotFatal ==
    (graphBuilt /\ ~dry_run /\ ClaimIsUrl(output)) =>
        /\ result.output = <<>>
        /\ \A i \in 1..Len(sinkCalls) : sinkCalls[i].sink = "amun"
        /\ Ended => ret.kind \in {"result", "LookupError"}
        /\ pc = "check" => Len(sinkCalls) = computed
        /\ Returned =>
            /\ Len(sinkCalls) = Len(pulled)
            /\ Len(pulled) = ExpectedComputed
            /\ result.computed = Len(sinkCalls)

C4_Witness ==
    /\ ~dry_run /\ Returned
    /\ output = HttpDest
    /\ Len(sinkCalls) = 3
    /\ result = [output |-> <<>>, computed |-> 3]

\* C5: a failing hash lookup does not end the run: no run ends with the
\* lookup's exception.
C5_LookupFailureDoesNotAbort ==
    ~(Ended /\ ret.kind = "LookupError")

\* k as a 5-digit zero-padded decimal number
ClaimFiveDigits(k) ==
    [j \in 1..5 |->
        <<"0", "1", "2", "3", "4", "5", "6", "7", "8", "9">>
            [((k \div (10 ^ (5 - j))) % 10) + 1]]

\* C6: in a non-dry directory run, after n dispatches the subdirectories
\* written are exactly output/00001 .. output/n, the k-th holding the
\* Pipfile and the Pipfile.lock of the k-th pulled project, and the output
\* list names them in order.
C6_DirectoriesNumberedFromOne ==
    (graphBuilt /\ ~dry_run /\ ClaimIsDirectory(output)) =>
        LET n == Len(sinkCalls)
        IN  /\ {d \in dirs : Len(d) = 2} = {<<output, ClaimFiveDigits(k)>> : k \in 1..n}
            /\ Cardinality({d \in dirs : Len(d) = 2}) = n
            /\ files = {[dir |-> <<output, ClaimFiveDigits(k)>>, name |-> f,
                         project |-> pulled[k]] :
                            k \in 1..n, f \in {"Pipfile", "Pipfile.lock"}}
            /\ result.output = [k \in 1..n |-> <<output, ClaimFiveDigits(k)>>]

C6_Witness ==
    /\ ~dry_run /\ Returned
    /\ output = DirDest
    /\ result.output = <<<<DirDest, <<"0", "0", "0", "0", "1">>>>,
                         <<DirDest, <<"0", "0", "0", "0", "2">>>>>>

\* C7: a dry run invokes no sink and records no output, and a run that has
\* ended, dry or not, reports computed = min(N, M): the dry run and the same
\* run without dry-run report the same number.  Stated for the runs in which
\* no hash lookup failed.
C7_DryRunReportsSameComputed ==
    /\ (graphBuilt /\ dry_run) => (sinkCalls = <<>> /\ result.output = <<>>)
    /\ (graphBuilt /\ Ended /\ ret.kind # "LookupError") =>
        (ret.kind = "result" /\ result.computed = ExpectedComputed)

\* C8: with dry_run set the call writes nothing to the destination: no sink
\* call, no file, and no directory created.
C8_DryRunWritesNothing ==
    dry_run => (sinkCalls = <<>> /\ files = {} /\ created = {})

\* the packages of the pass visited so far, the one whose lookup raised
\* included
Visited ==
    IF generated_project = 0 THEN <<>>
    ELSE SubSeq(Chain(generated_project), 1,
                IF Ended /\ ret.kind = "LookupError" THEN fillIdx
                ELSE fillIdx - 1)

WasEmpty(p) == passHashes[p] = <<>>

\* C9: in one filling pass the index is asked exactly once for each visited
\* package whose hash list was empty, in order, and never for one that had
\* hashes; the hashes a package had when the pass started are still there,
\* first and in order, and a package that had hashes keeps exactly those.
C9_FillAsksOncePerEmptyPackage ==
    /\ queries = SelectSeq(Visited, WasEmpty)
    /\ \A p \in Packages :
        /\ IsPrefix(passHashes[p], hashes[p])
        /\ passHashes[p] # <<>> => hashes[p] = passHashes[p]

C9_Witness ==
    /\ pc = "check"
    /\ generated_project = 2
    /\ passHashes[SharedDev] = <<Sha256Entry("aa"), Sha256Entry("bb")>>
    /\ hashes[SharedDev] = passHashes[SharedDev]
    /\ queries = <<2>>
    /\ Len(hashes[2]) = 2

C11_BootFillsOnlyUnsetPlatform ==
    [][bootRuns' # bootRuns =>
        /\ unitRet'.kind = "None"
        /\ platform' = (IF platform = <<>> THEN <<"linux-x86_64">> ELSE platform)
        /\ bootRuns >= 1 => platform' = platform
        /\ UNCHANGED <<pipeline, configuration, states, rng>>]_vars

C11_Witness ==
    /\ bootRuns = 2
    /\ lastOp = "PlatformBoot.run"
    /\ platform = <<"linux-x86_64">>

\* number of PlatformBoot units in a pipeline
BootsIn(pl) == Cardinality({i \in 1..Len(pl) : pl[i] = "PlatformBoot"})

\* C12: PlatformBoot.should_include returns an empty map when no
\* PlatformBoot is in the pipeline and None when one is, and after every
\* query of the builder the pipeline holds exactly one PlatformBoot.
C12_ShouldIncludeExactlyOnce ==
    [][queriesMade' # queriesMade =>
        /\ unitRet'.kind = (IF BootsIn(pipeline) = 0 THEN "{}" ELSE "None")
        /\ BootsIn(pipeline') = 1]_vars

C12_Witness ==
    /\ queriesMade = 2
    /\ lastOp = "PlatformBoot.should_include"
    /\ unitRet.kind = "None"
    /\ pipeline = <<"PlatformBoot">>

\* C13: computed grows by one exactly when a project is pulled, and the
\* hash filling starts then; the filling is left either by the lookup's
\* exception or, complete, towards the sink (towards the bound check in a
\* dry run); a sink is called only with the filling of the project just
\* pulled complete; the bound check follows the dispatch (the filling in a
\* dry run) and nothing else; and the run that stops at the bound has
\* computed = N and, unless dry, N sink calls.
C13_CountFillDispatchCheck ==
    [][/\ computed' # computed =>
            /\ pc = "loop" /\ pc' = "fill"
            /\ computed' = computed + 1
            /\ Len(pulled') = Len(pulled) + 1
            /\ fillIdx' = 1
       /\ (pc = "fill" /\ pc' # "fill") =>
            \/ (pc' = "done" /\ ret'.kind = "LookupError")
            \/ /\ fillIdx > Len(Chain(generated_project))
               /\ pc' = (IF dry_run THEN "check" ELSE "sink")
       /\ sinkCalls' # sinkCalls =>
            /\ pc = "sink" /\ ~dry_run
            /\ fillIdx > Len(Chain(generated_project))
            /\ generated_project = pulled[Len(pulled)]
            /\ Len(sinkCalls') = Len(sinkCalls) + 1
            /\ sinkCalls'[Len(sinkCalls')].project = generated_project
            /\ sinkCalls'[Len(sinkCalls')].count = computed
            /\ pc' \in {"check", "done"}
       /\ (pc' = "check" /\ pc # "check") =>
            (pc = "sink" \/ (pc = "fill" /\ dry_run))
       /\ (pc = "check" /\ pc' # "check") =>
            \/ /\ pc' = "loop"
               /\ (count = <<>> \/ computed < count[1])
            \/ /\ pc' = "done" /\ ret'.kind = "result"
               /\ count # <<>> /\ computed = count[1]
               /\ result'.computed = computed
               /\ ~dry_run => Len(sinkCalls) = computed]_vars

C13_Witness ==
    /\ Returned /\ ~dry_run
    /\ output = DirDest
    /\ count = Some(2) /\ result.computed = 2
    /\ Len(sinkCalls) = 2
    /\ WalkLength = 3

\* the accepted pair's return value and the rejection, in the claim's words
ClaimRejects(cfg, c) ==
    \/ (cfg.package_version # <<>> /\ cfg.package_version # <<c.locked_version>>)
    \/ (cfg.index_url # <<>> /\ cfg.index_url # <<c.index_url>>)

\* C14: a call of SetScoreStep.run returns None exactly when a configured
\* package version differs from the candidate's locked version or a
\* configured index URL differs from the candidate's; otherwise it returns
\* the configured score with no justification; the state, the candidate's
\* name and the configured package_name play no part, and the call leaves
\* the states and the configuration as they were.
C14_RunRejectsOnVersionOrIndexOnly ==
    [][lastOp' = "SetScoreStep.run" =>
        /\ unitRet' = (IF ClaimRejects(configuration, lastCall'.candidate)
                       THEN [kind |-> "None", score |-> <<>>]
                       ELSE [kind |-> "tuple", score |-> configuration.score])
        /\ configuration' = configuration
        /\ states' = states]_vars

C14_Witness ==
    /\ lastOp = "SetScoreStep.run"
    /\ configuration.package_name = Some("flask")
    /\ configuration.package_version = Some("1.0")
    /\ lastCall.candidate.name = "tensorflow"
    /\ lastCall.candidate.locked_version = "1.0"
    /\ lastCall.state = 2
    /\ unitRet.kind = "tuple"

\* C15: pre_run gives the configuration a score when it has none and
\* otherwise leaves the configuration as it is; once pre_run has run the
\* score is set and no step changes it, and every accepting call of run
\* returns that score, the one the first pre_run left.
C15_PreRunMaterializesScoreOnce ==
    [][/\ preRuns' # preRuns =>
            IF configuration.score = <<>>
            THEN /\ configuration'.score # <<>>
                 /\ configuration' = [configuration EXCEPT !.score = configuration'.score]
            ELSE configuration' = configuration
       /\ preRuns >= 1 =>
            /\ configuration.score # <<>>
            /\ configuration'.score = configuration.score
            /\ firstScore = configuration.score
       /\ (preRuns >= 1 /\ lastOp' = "SetScoreStep.run" /\ unitRet'.kind = "tuple") =>
            /\ unitRet'.score = firstScore
            /\ unitRet'.score # <<>>]_vars

C15_Witness ==
    /\ preRuns = 2
    /\ lastOp = "SetScoreStep.run"
    /\ configuration.package_name = None
    /\ unitRet.kind = "tuple"
    /\ unitRet.score = firstScore
    /\ firstScore # None

\* C16: the output list never has more entries than projects were pulled
\* and its entries are in generation order (the i-th is the path of
\* subdirectory i); when a non-dry run returns, the directory sink has left
\* exactly 'computed' entries, the standard-output sink none, and the
\* validation-service sink one per successful submission, of which there
\* is none.
C16_OutputListAgainstComputed ==
    graphBuilt =>
        /\ Len(result.output) <= Len(pulled)
        /\ \A i \in 1..Len(result.output) :
            result.output[i] = <<output, ClaimFiveDigits(i)>>
        /\ (Returned /\ ~dry_run) =>
            IF ClaimSink(output) = "directory"
            THEN Len(result.output) = result.computed
            ELSE result.output = <<>>

C16_Witness ==
    /\ Returned /\ ~dry_run
    /\ output = DirDest
    /\ result.computed = 3
    /\ Len(result.output) = 3

ClaimIsJson(text) == text = "{}"
ClaimDecisionKnown == decision \in {"all", "sampling"}
ClaimCountOk == count = <<>> \/ count[1] > 0

\* C17: once called, an unknown decision name has raised ValueError
\* whatever else is wrong; else a count <= 0 has returned 3; else, for an
\* http(s) destination, a (non-empty) context that is no JSON has returned
\* 1; else, for a directory destination, a (non-empty) context has returned
\* 2; with "-" no code is returned and the run starts whatever the context
\* is; and a result mapping is returned only when none of the four applies.
C17_ChecksInFixedOrder ==
    Called =>
        /\ ~ClaimDecisionKnown => ret.kind = "ValueError"
        /\ (ClaimDecisionKnown /\ ~ClaimCountOk) =>
            ret = [kind |-> "code", code |-> 3]
        /\ (ClaimDecisionKnown /\ ClaimCountOk /\ ClaimIsUrl(output)
                /\ ClaimContextGiven /\ ~ClaimIsJson(context[1])) =>
            ret = [kind |-> "code", code |-> 1]
        /\ (ClaimDecisionKnown /\ ClaimCountOk /\ ClaimIsDirectory(output)
                /\ ClaimContextGiven) =>
            ret = [kind |-> "code", code |-> 2]
        /\ (ClaimDecisionKnown /\ ClaimCountOk /\ output = <<"-">>) =>
            (graphBuilt /\ ret.kind \notin {"code", "ValueError"})
        /\ ret.kind = "result" =>
            /\ ClaimDecisionKnown /\ ClaimCountOk
            /\ ~(ClaimIsUrl(output) /\ ClaimContextGiven /\ ~ClaimIsJson(context[1]))
            /\ ~(ClaimIsDirectory(output) /\ ClaimContextGiven)

C17_Witness ==
    /\ Ended
    /\ decision = "sampling" /\ count = None
    /\ output = HttpsDest /\ context = Some("x")
    /\ ret = [kind |-> "code", code |-> 1]

====
